---- MODULE Spec2Model ----
(***************************************************************************)
(* The standard scheduler service of chaind                                *)
(* (services/scheduler/standard/service.go): the registry of named jobs,   *)
(* the per-job record with its two one-slot signal channels, the one-off   *)
(* and periodic runner goroutines, and the API calls that run and cancel   *)
(* jobs.                                                                   *)
(*                                                                         *)
(* Atomicity.  A registry-lock section is one step.  A state-lock section  *)
(* is one step together with the channel send it ends with, unless the     *)
(* send has to wait: then the goroutine stops before the send, holding the *)
(* lock.  The loads and stores of job.active outside a lock are steps of   *)
(* their own where another goroutine can come between (the timer case      *)
(* between its Load and its Store).  A runner blocked in its select is     *)
(* woken by the first event that arrives and is committed to that case; a  *)
(* runner that arrives at its select with several cases ready takes any.   *)
(***************************************************************************)
EXTENDS Integers, Sequences, FiniteSets, TLC

\* Bounds of the model.
MaxJobs  == 2         \* job records created in one behaviour of SpecPair
SoloJobs == 1         \* job records created in one behaviour of Spec
MaxIter  == 3         \* calls of a periodic job's runtimeFunc

Callers  == {"c1", "c2"}                      \* goroutines calling the API
Names    == {<<"a">>, <<"a", "b">>}           \* job names in use
Prefixes == {<<>>, <<"a", "b">>, <<"b">>}       \* matching all, one, none
JobIds   == 1..MaxJobs                        \* job records (*job pointers)
None     == 0

VARIABLES
    jobs,       \* Service.jobs: name -> job record, None when absent
    job,        \* the job records: periodic, active, finalised, channels, lock
    runner,     \* each record's runner goroutine: position, timer
    ctxDone,    \* the parent context is cancelled
    call,       \* each caller's API call in progress
    ret,        \* the call that has just returned, and its result
    hist,       \* what happened to each record (observation only)
    panicked    \* a goroutine panicked (close of closed channel, send on closed)

vars == <<jobs, job, runner, ctxDone, call, ret, hist, panicked>>

----------------------------------------------------------------------------
\* Values

\* make(chan struct{}, 1)
NewChan == [buf |-> 0, closed |-> 0]

\* &job{cancelCh: ..., runCh: ..., periodic: p}
NewJob(n, p) ==
    [name |-> n, periodic |-> p, active |-> FALSE, finalised |-> FALSE,
     cancelCh |-> NewChan, runCh |-> NewChan, stateLock |-> "free"]

NoJob == NewJob(<<>>, FALSE)

\* The goroutine started by ScheduleJob (at its select; due when the
\* runtime given is not in the future) or by SchedulePeriodicJob (at the
\* top of its loop).
NewRunner(p, due) == [pc |-> IF p THEN "loop" ELSE "select", due |-> due]

NoRunner == [pc |-> "none", due |-> FALSE]

NoHist ==
    [execs |-> 0, rtCalls |-> 0, cause |-> "none", touched |-> FALSE,
     runOk |-> FALSE, cancelRet |-> "none", ctxEarly |-> FALSE]

\* A caller between calls.
Idle == [pc |-> "idle", job |-> None, names |-> {}, prefix |-> <<>>, loop |-> FALSE,
         ch |-> "none"]

\* The function fn, called with name n, returned err ("none" for a
\* function without a result) about record j.
Ret(fn, n, j, err) == [fn |-> fn, name |-> n, job |-> j, err |-> err, names |-> {}]

NoRet == Ret("none", <<>>, None, "none")

\* strings.HasPrefix
HasPrefix(s, p) == Len(p) <= Len(s) /\ SubSeq(s, 1, Len(p)) = p

\* The goroutines take steps while nothing has panicked; while a result is
\* being returned nothing else is looked at.
Running == ~panicked /\ ret = NoRet

\* The records made so far are 1..Created.
Created == Cardinality({j \in JobIds : runner[j].pc # "none"})

Init ==
    /\ jobs = [n \in Names |-> None]
    /\ job = [j \in JobIds |-> NoJob]
    /\ runner = [j \in JobIds |-> NoRunner]
    /\ ctxDone = FALSE
    /\ call = [c \in Callers |-> Idle]
    /\ ret = NoRet
    /\ hist = [j \in JobIds |-> NoHist]
    /\ panicked = FALSE

----------------------------------------------------------------------------
\* Scheduling

\* Register without the test for a name already in the registry: the new
\* record replaces the old one under the name.
RegisterOverwrites(fn, n, p, due) ==
    /\ Created < MaxJobs
    /\ jobs' = [jobs EXCEPT ![n] = Created + 1]
    /\ job' = [job EXCEPT ![Created + 1] = NewJob(n, p)]
    /\ runner' = [runner EXCEPT ![Created + 1] = NewRunner(p, due)]
    /\ hist' = [hist EXCEPT ![Created + 1] = NoHist]
    /\ ret' = Ret(fn, n, Created + 1, "nil")

\* The registry section and goroutine start shared by both schedule calls.
Register(fn, n, p, due) ==
    IF jobs[n] # None
    THEN /\ ret' = Ret(fn, n, None, "ErrJobAlreadyExists")
         /\ UNCHANGED <<jobs, job, runner, hist>>
    ELSE /\ Created < MaxJobs
         /\ jobs' = [jobs EXCEPT ![n] = Created + 1]
         /\ job' = [job EXCEPT ![Created + 1] = NewJob(n, p)]
         /\ runner' = [runner EXCEPT ![Created + 1] = NewRunner(p, due)]
         /\ hist' = [hist EXCEPT ![Created + 1] = NoHist]
         /\ ret' = Ret(fn, n, Created + 1, "nil")

\* ScheduleJob(ctx, class, name, runtime, jobFunc, data); past tells
\* whether runtime has been reached already.
ScheduleJob(c, n, past, jobFunc) ==
    /\ Running
    /\ call[c].pc = "idle"
    /\ UNCHANGED <<ctxDone, call, panicked>>
    /\ IF n = <<>>
       THEN /\ ret' = Ret("ScheduleJob", n, None, "ErrNoJobName")
            /\ UNCHANGED <<jobs, job, runner, hist>>
       ELSE IF ~jobFunc
       THEN /\ ret' = Ret("ScheduleJob", n, None, "ErrNoJobFunc")
            /\ UNCHANGED <<jobs, job, runner, hist>>
       ELSE Register("ScheduleJob", n, FALSE, past)

SchedulePeriodicJob(c, n, runtimeFunc, jobFunc) ==
    /\ Running
    /\ call[c].pc = "idle"
    /\ UNCHANGED <<ctxDone, call, panicked>>
    /\ IF n = <<>>
       THEN /\ ret' = Ret("SchedulePeriodicJob", n, None, "ErrNoJobName")
            /\ UNCHANGED <<jobs, job, runner, hist>>
       ELSE IF ~runtimeFunc
       THEN /\ ret' = Ret("SchedulePeriodicJob", n, None, "ErrNoRuntimeFunc")
            /\ UNCHANGED <<jobs, job, runner, hist>>
       ELSE IF ~jobFunc
       THEN /\ ret' = Ret("SchedulePeriodicJob", n, None, "ErrNoJobFunc")
            /\ UNCHANGED <<jobs, job, runner, hist>>
       ELSE Register("SchedulePeriodicJob", n, TRUE, FALSE)

\* The caller has its result.
Return ==
    /\ ~panicked
    /\ ret # NoRet
    /\ ret' = NoRet
    /\ UNCHANGED <<jobs, job, runner, ctxDone, call, hist, panicked>>

----------------------------------------------------------------------------
\* Channels

\* ch <- struct{}{} on channel `which` of record j can proceed: a runner
\* blocked in its select takes the value, or the one-slot buffer is free
\* (or the channel is closed, and the send panics).
CanSend(j, which) ==
    \/ job[j][which].closed > 0
    \/ runner[j].pc = "wait"
    \/ job[j][which].buf = 0

\* The record jb after the send: the value is buffered unless a blocked
\* runner takes it directly.
Sent(j, which, jb) ==
    IF runner[j].pc = "wait" THEN jb ELSE [jb EXCEPT ![which].buf = 1]

\* The runners after a send to record j: a runner blocked in its select is
\* committed to the case of that channel.
Woken(j, which) ==
    IF runner[j].pc = "wait"
    THEN [runner EXCEPT ![j].pc = IF which = "cancelCh" THEN "cancel" ELSE "run"]
    ELSE runner

\* A send on a closed channel panics.
SendPanics(j, which) == job[j][which].closed > 0

----------------------------------------------------------------------------
\* Running a job now

\* The registry section of RunJob and RunJobIfExists; fn is the one called,
\* noJob what it returns for a name that is not registered.
RunLookup(c, fn, n, noJob) ==
    /\ Running
    /\ call[c].pc = "idle"
    /\ UNCHANGED <<job, runner, ctxDone, panicked>>
    /\ IF jobs[n] = None
       THEN /\ ret' = Ret(fn, n, None, noJob)
            /\ UNCHANGED <<jobs, call, hist>>
       ELSE /\ jobs' = IF job[jobs[n]].periodic THEN jobs ELSE [jobs EXCEPT ![n] = None]
            /\ call' = [call EXCEPT ![c] = [Idle EXCEPT !.pc = "runJob", !.job = jobs[n]]]
            /\ hist' = [hist EXCEPT ![jobs[n]].touched = TRUE]
            /\ ret' = NoRet

RunJob(c, n) == RunLookup(c, "RunJob", n, "ErrNoSuchJob")

RunJobIfExists(c, n) == RunLookup(c, "RunJobIfExists", n, "none")

\* runJob has returned nil for record j; it is recorded whether that was
\* before the job's time was reached and before jobFunc had started.
RunReturn(c, j) ==
    /\ call' = [call EXCEPT ![c] = Idle]
    /\ ret' = Ret("runJob", job[j].name, j, "nil")
    /\ hist' = [hist EXCEPT ![j].runOk = (hist[j].execs = 0 /\ ~runner[j].due)]

\* runJob: the state-lock section with its checks, the store of active and
\* the send on runCh.
runJob(c) ==
    LET j == call[c].job IN
    /\ Running
    /\ call[c].pc = "runJob"
    /\ job[j].stateLock = "free"
    /\ UNCHANGED <<jobs, ctxDone>>
    /\ IF job[j].active
       THEN /\ ret' = Ret("runJob", job[j].name, j, "ErrJobRunning")
            /\ call' = [call EXCEPT ![c] = Idle]
            /\ UNCHANGED <<job, runner, hist, panicked>>
       ELSE IF job[j].finalised
       THEN /\ ret' = Ret("runJob", job[j].name, j, "ErrJobFinalised")
            /\ call' = [call EXCEPT ![c] = Idle]
            /\ UNCHANGED <<job, runner, hist, panicked>>
       ELSE IF CanSend(j, "runCh")
       THEN /\ job' = [job EXCEPT ![j] = Sent(j, "runCh", [@ EXCEPT !.active = TRUE])]
            /\ runner' = Woken(j, "runCh")
            /\ panicked' = SendPanics(j, "runCh")
            /\ RunReturn(c, j)
       ELSE /\ job' = [job EXCEPT ![j].active = TRUE, ![j].stateLock = c]
            /\ call' = [call EXCEPT ![c].pc = "send", ![c].ch = "runCh"]
            /\ ret' = NoRet
            /\ UNCHANGED <<runner, hist, panicked>>

----------------------------------------------------------------------------
\* Cancelling

\* A CancelJob that returned nil for record j is recorded: "early" when the
\* one-off job's time had not been reached and its function had not started.
MarkCancel(h, j) ==
    [h EXCEPT ![j].cancelRet =
        IF ~job[j].periodic /\ ~runner[j].due /\ h[j].execs = 0
        THEN "early" ELSE "late"]

\* The registry section of CancelJob, called as fn.
CancelLookup(c, fn, n, noJob) ==
    /\ Running
    /\ call[c].pc = "idle"
    /\ UNCHANGED <<job, runner, ctxDone, panicked>>
    /\ IF jobs[n] = None
       THEN /\ ret' = Ret(fn, n, None, noJob)
            /\ UNCHANGED <<jobs, call, hist>>
       ELSE /\ jobs' = [jobs EXCEPT ![n] = None]
            /\ call' = [call EXCEPT ![c] = [Idle EXCEPT !.pc = "cancel", !.job = jobs[n]]]
            /\ hist' = [hist EXCEPT ![jobs[n]].touched = TRUE]
            /\ ret' = NoRet

CancelJob(c, n) == CancelLookup(c, "CancelJob", n, "ErrNoSuchJob")

\* CancelJobIfExists that hands CancelJob's error on.
CancelJobIfExistsErrs(c, n) == CancelLookup(c, "CancelJobIfExists", n, "ErrNoSuchJob")

CancelJobIfExists(c, n) == CancelLookup(c, "CancelJobIfExists", n, "none")

\* CancelJob has returned nil for record j: back to the caller, or to the
\* loop of CancelJobs.
CancelReturn(c, j) ==
    /\ call' = [call EXCEPT ![c] = IF call[c].loop
                                     THEN [call[c] EXCEPT !.pc = "loop", !.job = None,
                                                          !.ch = "none"]
                                     ELSE Idle]
    /\ ret' = Ret("CancelJob", job[j].name, j, "nil")
    /\ hist' = MarkCancel(hist, j)

\* CancelJobState without the test of finalised: the signal is sent whatever
\* the state of the record.
CancelJobStateUnchecked(c) ==
    LET j == call[c].job IN
    /\ Running
    /\ call[c].pc = "cancel"
    /\ job[j].stateLock = "free"
    /\ CanSend(j, "cancelCh")
    /\ job' = [job EXCEPT ![j] = Sent(j, "cancelCh", [@ EXCEPT !.finalised = TRUE])]
    /\ runner' = Woken(j, "cancelCh")
    /\ panicked' = SendPanics(j, "cancelCh")
    /\ CancelReturn(c, j)
    /\ UNCHANGED <<jobs, ctxDone>>

\* CancelJob's state-lock section: the check and store of finalised and the
\* send on cancelCh.
CancelJobState(c) ==
    LET j == call[c].job IN
    /\ Running
    /\ call[c].pc = "cancel"
    /\ job[j].stateLock = "free"
    /\ UNCHANGED <<jobs, ctxDone>>
    /\ IF job[j].finalised
       THEN /\ CancelReturn(c, j)
            /\ UNCHANGED <<job, runner, panicked>>
       ELSE IF CanSend(j, "cancelCh")
       THEN /\ job' = [job EXCEPT ![j] = Sent(j, "cancelCh", [@ EXCEPT !.finalised = TRUE])]
            /\ runner' = Woken(j, "cancelCh")
            /\ panicked' = SendPanics(j, "cancelCh")
            /\ CancelReturn(c, j)
       ELSE /\ job' = [job EXCEPT ![j].finalised = TRUE, ![j].stateLock = c]
            /\ call' = [call EXCEPT ![c].pc = "send", ![c].ch = "cancelCh"]
            /\ ret' = NoRet
            /\ UNCHANGED <<runner, hist, panicked>>

\* A send that had to wait (the buffer was full) goes through: the lock is
\* released and runJob or CancelJob returns nil.
SendBlocked(c) ==
    LET j == call[c].job
        which == call[c].ch IN
    /\ Running
    /\ call[c].pc = "send"
    /\ CanSend(j, which)
    /\ job' = [job EXCEPT ![j] = Sent(j, which, [@ EXCEPT !.stateLock = "free"])]
    /\ runner' = Woken(j, which)
    /\ panicked' = SendPanics(j, which)
    /\ IF which = "runCh" THEN RunReturn(c, j) ELSE CancelReturn(c, j)
    /\ UNCHANGED <<jobs, ctxDone>>

\* CancelJobs: the snapshot of the matching names.
CancelJobs(c, prefix) ==
    /\ Running
    /\ call[c].pc = "idle"
    /\ call' = [call EXCEPT ![c] =
                  [Idle EXCEPT !.pc = "loop", !.prefix = prefix, !.loop = TRUE,
                               !.names = {n \in Names : jobs[n] # None /\ HasPrefix(n, prefix)}]]
    /\ ret' = NoRet
    /\ UNCHANGED <<jobs, job, runner, ctxDone, hist, panicked>>

\* CancelJobs: CancelJobIfExists on the next name of the snapshot (in any
\* order: the snapshot is taken in map order), or the return when none is
\* left.
CancelJobsNext(c) ==
    /\ Running
    /\ call[c].pc = "loop"
    /\ UNCHANGED <<job, runner, ctxDone, panicked>>
    /\ IF call[c].names = {}
       THEN /\ call' = [call EXCEPT ![c] = Idle]
            /\ ret' = Ret("CancelJobs", call[c].prefix, None, "none")
            /\ UNCHANGED <<jobs, hist>>
       ELSE \E n \in call[c].names :
            IF jobs[n] = None
            THEN /\ call' = [call EXCEPT ![c].names = call[c].names \ {n}]
                 /\ ret' = Ret("CancelJobIfExists", n, None, "none")
                 /\ UNCHANGED <<jobs, hist>>
            ELSE /\ jobs' = [jobs EXCEPT ![n] = None]
                 /\ call' = [call EXCEPT ![c].pc = "cancel", ![c].job = jobs[n],
                                         ![c].names = call[c].names \ {n}]
                 /\ hist' = [hist EXCEPT ![jobs[n]].touched = TRUE]
                 /\ ret' = NoRet

\* JobExists and ListJobs: read-only registry sections.
JobExists(c, n) ==
    /\ Running
    /\ call[c].pc = "idle"
    /\ ret' = Ret("JobExists", n, jobs[n], IF jobs[n] # None THEN "true" ELSE "false")
    /\ UNCHANGED <<jobs, job, runner, ctxDone, call, hist, panicked>>

ListJobs(c) ==
    /\ Running
    /\ call[c].pc = "idle"
    /\ ret' = [Ret("ListJobs", <<>>, None, "none") EXCEPT
                 !.names = {n \in Names : jobs[n] # None}]
    /\ UNCHANGED <<jobs, job, runner, ctxDone, call, hist, panicked>>

----------------------------------------------------------------------------
\* The runner goroutines: the select statement

\* A receive from a channel is ready when a value is buffered or the
\* channel is closed.
Ready(ch) == ch.buf = 1 \/ ch.closed > 0

\* case <-ctx.Done(), taken by a runner arriving at its select.
SelectCtxDone(j) ==
    /\ Running
    /\ runner[j].pc = "select"
    /\ ctxDone
    /\ runner' = [runner EXCEPT ![j].pc = "ctx"]
    /\ ret' = NoRet
    /\ UNCHANGED <<jobs, job, ctxDone, call, hist, panicked>>

\* case <-job.cancelCh
SelectCancel(j) ==
    /\ Running
    /\ runner[j].pc = "select"
    /\ Ready(job[j].cancelCh)
    /\ job' = [job EXCEPT ![j].cancelCh.buf = 0]
    /\ runner' = [runner EXCEPT ![j].pc = "cancel"]
    /\ ret' = NoRet
    /\ UNCHANGED <<jobs, ctxDone, call, hist, panicked>>

\* case <-job.runCh
SelectRun(j) ==
    /\ Running
    /\ runner[j].pc = "select"
    /\ Ready(job[j].runCh)
    /\ job' = [job EXCEPT ![j].runCh.buf = 0]
    /\ runner' = [runner EXCEPT ![j].pc = "run"]
    /\ ret' = NoRet
    /\ UNCHANGED <<jobs, ctxDone, call, hist, panicked>>

\* case <-time.After(time.Until(runtime)): taken on arrival, or waking a
\* blocked runner.
SelectTimer(j) ==
    /\ Running
    /\ runner[j].pc \in {"select", "wait"}
    /\ runner[j].due
    /\ runner' = [runner EXCEPT ![j].pc = "timer"]
    /\ ret' = NoRet
    /\ UNCHANGED <<jobs, job, ctxDone, call, hist, panicked>>

\* No case is ready (the timer has not fired yet): the runner blocks, and
\* the first event to arrive decides its case.
SelectBlock(j) ==
    /\ Running
    /\ runner[j].pc = "select"
    /\ ~ctxDone
    /\ ~Ready(job[j].cancelCh)
    /\ ~Ready(job[j].runCh)
    /\ runner' = [runner EXCEPT ![j].pc = "wait"]
    /\ ret' = NoRet
    /\ UNCHANGED <<jobs, job, ctxDone, call, hist, panicked>>

\* The parent context is cancelled; the runners blocked in their select
\* wake on it.  It is recorded which one-off runners had not left their
\* select.
ContextCancel ==
    /\ Running
    /\ ~ctxDone
    /\ \E j \in JobIds : runner[j].pc # "none"
    /\ ctxDone' = TRUE
    /\ runner' = [j \in JobIds |->
                    IF runner[j].pc = "wait" THEN [runner[j] EXCEPT !.pc = "ctx"]
                    ELSE runner[j]]
    /\ hist' = [j \in JobIds |->
                  [hist[j] EXCEPT !.ctxEarly =
                      ~job[j].periodic /\ runner[j].pc \in {"select", "wait"}]]
    /\ ret' = NoRet
    /\ UNCHANGED <<jobs, job, call, panicked>>

\* Time passes: the runtime of job j is reached.
TimePasses(j) ==
    /\ Running
    /\ runner[j].pc \in {"select", "wait"}
    /\ ~runner[j].due
    /\ runner' = [runner EXCEPT ![j].due = TRUE]
    /\ ret' = NoRet
    /\ UNCHANGED <<jobs, job, ctxDone, call, hist, panicked>>

----------------------------------------------------------------------------
\* The runner goroutines: the cases

\* Delete that leaves the registry as it is.
DeleteNothing(n) == jobs

\* delete(s.jobs, name)
Delete(n) == [jobs EXCEPT ![n] = None]

\* Parent context done: the name is deleted.
CtxDelete(j) ==
    /\ Running
    /\ runner[j].pc = "ctx"
    /\ jobs' = Delete(job[j].name)
    /\ runner' = [runner EXCEPT ![j].pc = "ctxFin"]
    /\ ret' = NoRet
    /\ UNCHANGED <<job, ctxDone, call, hist, panicked>>

\* Close that leaves the channel open.
CloseNothing(ch) == ch

\* close(ch)
Close(ch) == [ch EXCEPT !.closed = @ + 1]

\* AfterFinalise for a runner whose timer case goes round again, as the
\* periodic runner's does.
AfterFinaliseLooping(pc) ==
    IF pc = "runFin" THEN "runClr" ELSE IF pc = "timerFin" THEN "select" ELSE "done"

\* Where a runner goes after finaliseJob, and the cause it ends by.
AfterFinalise(pc) == IF pc = "runFin" THEN "runClr" ELSE "done"

FinalCause(pc, cause) ==
    CASE pc = "ctxFin" -> "ctx"
      [] pc = "cancel" -> "cancel"
      [] OTHER -> cause

\* finaliseJob, called by the runner: one state-lock section.
finaliseJob(j) ==
    /\ Running
    /\ runner[j].pc \in {"ctxFin", "cancel", "runFin", "timerFin", "endFin"}
    /\ job[j].stateLock = "free"
    /\ job' = [job EXCEPT ![j].finalised = TRUE,
                          ![j].cancelCh = Close(@),
                          ![j].runCh = Close(@)]
    /\ panicked' = (job[j].cancelCh.closed > 0 \/ job[j].runCh.closed > 0)
    /\ runner' = [runner EXCEPT ![j].pc = AfterFinalise(runner[j].pc)]
    /\ hist' = [hist EXCEPT ![j].cause = FinalCause(runner[j].pc, @)]
    /\ ret' = NoRet
    /\ UNCHANGED <<jobs, ctxDone, call>>

\* RunStart with jobFunc called inside a state-lock section.
RunStartLocked(j) ==
    /\ Running
    /\ runner[j].pc = "run"
    /\ job[j].stateLock = "free"
    /\ job' = [job EXCEPT ![j].stateLock = "runner"]
    /\ runner' = [runner EXCEPT ![j].pc = "runExec"]
    /\ hist' = [hist EXCEPT ![j].execs = @ + 1, ![j].cause = "signal"]
    /\ ret' = NoRet
    /\ UNCHANGED <<jobs, ctxDone, call, panicked>>

\* Run case: jobFunc is called.
RunStart(j) ==
    /\ Running
    /\ runner[j].pc = "run"
    /\ runner' = [runner EXCEPT ![j].pc = "runExec"]
    /\ hist' = [hist EXCEPT ![j].execs = @ + 1, ![j].cause = "signal"]
    /\ ret' = NoRet
    /\ UNCHANGED <<jobs, job, ctxDone, call, panicked>>

\* Run case: jobFunc returns.  The one-off runner goes on to finaliseJob;
\* the periodic runner stores active and loops.
RunEnd(j) ==
    /\ Running
    /\ runner[j].pc = "runExec"
    /\ runner' = [runner EXCEPT ![j].pc = IF job[j].periodic THEN "loop" ELSE "runFin"]
    /\ job' = [job EXCEPT ![j].active = IF job[j].periodic THEN FALSE ELSE @]
    /\ ret' = NoRet
    /\ UNCHANGED <<jobs, ctxDone, call, hist, panicked>>

\* Run case of the one-off runner: job.active.Store(false) after
\* finaliseJob.
ClearActive(j) ==
    /\ Running
    /\ runner[j].pc = "runClr"
    /\ job' = [job EXCEPT ![j].active = FALSE]
    /\ runner' = [runner EXCEPT ![j].pc = "done"]
    /\ ret' = NoRet
    /\ UNCHANGED <<jobs, ctxDone, call, hist, panicked>>

\* AfterTimerCheck with the test of job.active inverted.
AfterTimerCheckInverted(active, periodic) ==
    IF ~active THEN (IF periodic THEN "loop" ELSE "done") ELSE "timerGo"

\* Where the timer case goes after job.active.Load().
AfterTimerCheck(active, periodic) ==
    IF active THEN (IF periodic THEN "loop" ELSE "done") ELSE "timerGo"

\* Timer case: if job.active.Load() { break / continue }
TimerCheck(j) ==
    /\ Running
    /\ runner[j].pc = "timer"
    /\ runner' = [runner EXCEPT ![j].pc = AfterTimerCheck(job[j].active, job[j].periodic)]
    /\ hist' = [hist EXCEPT ![j].cause =
                   IF job[j].active /\ ~job[j].periodic THEN "skip" ELSE @]
    /\ ret' = NoRet
    /\ UNCHANGED <<jobs, job, ctxDone, call, panicked>>

\* TimerRegistry for a timer case that leaves the name in the registry.
TimerRegistryKeeps(j) == jobs

\* The registry after the timer case's registry section: the one-off
\* runner deletes its name, the periodic runner has no such section.
TimerRegistry(j) == IF job[j].periodic THEN jobs ELSE Delete(job[j].name)

\* Timer case, job not active: the name is deleted (one-off),
\* job.active.Store(true), and jobFunc is called.
TimerStart(j) ==
    /\ Running
    /\ runner[j].pc = "timerGo"
    /\ jobs' = TimerRegistry(j)
    /\ job' = [job EXCEPT ![j].active = TRUE]
    /\ runner' = [runner EXCEPT ![j].pc = "timerExec"]
    /\ hist' = [hist EXCEPT ![j].execs = @ + 1, ![j].cause = "timer"]
    /\ ret' = NoRet
    /\ UNCHANGED <<ctxDone, call, panicked>>

\* Timer case: jobFunc returns and job.active.Store(false).
TimerEnd(j) ==
    /\ Running
    /\ runner[j].pc = "timerExec"
    /\ job' = [job EXCEPT ![j].active = FALSE]
    /\ runner' = [runner EXCEPT ![j].pc = IF job[j].periodic THEN "loop" ELSE "timerFin"]
    /\ ret' = NoRet
    /\ UNCHANGED <<jobs, ctxDone, call, hist, panicked>>

\* The errors runtimeFunc may return on its next call: none (with a time),
\* the sentinel ErrNoMoreInstances or another error; its MaxIter-th call
\* ends the job.
RuntimeErrs(j) ==
    {"ErrNoMoreInstances", "error"}
        \cup (IF hist[j].rtCalls + 1 < MaxIter THEN {"nil"} ELSE {})

\* Top of the periodic loop: runtimeFunc is called and returns a time
\* (reached already or not), or an error, on which the name is deleted.
RuntimeFunc(j, due, err) ==
    /\ Running
    /\ runner[j].pc = "loop"
    /\ err \in RuntimeErrs(j)
    /\ IF err = "nil"
       THEN /\ runner' = [runner EXCEPT ![j].pc = "select", ![j].due = due]
            /\ hist' = [hist EXCEPT ![j].rtCalls = @ + 1]
            /\ UNCHANGED jobs
       ELSE /\ ~due
            /\ jobs' = Delete(job[j].name)
            /\ runner' = [runner EXCEPT ![j].pc = "endFin", ![j].due = FALSE]
            /\ hist' = [hist EXCEPT ![j].rtCalls = @ + 1, ![j].cause = "ended"]
    /\ ret' = Ret("runtimeFunc", job[j].name, j, err)
    /\ UNCHANGED <<job, ctxDone, call, panicked>>

----------------------------------------------------------------------------
\* The system

\* A schedule call with valid arguments and a free name makes a record;
\* the callers make no more than max.
MayCall(n, valid, max) ==
    IF n = <<>> \/ ~valid THEN TRUE ELSE jobs[n] # None \/ Created < max

\* The steps of the callers cs and of the runners, with at most max job
\* records.
Sys(cs, max) ==
    \/ \E c \in cs, n \in Names \cup {<<>>}, past \in BOOLEAN, f \in BOOLEAN :
          MayCall(n, f, max) /\ ScheduleJob(c, n, past, f)
    \/ \E c \in cs, n \in Names \cup {<<>>}, rf \in BOOLEAN, f \in BOOLEAN :
          MayCall(n, rf /\ f, max) /\ SchedulePeriodicJob(c, n, rf, f)
    \/ \E c \in cs, n \in Names : RunJob(c, n)
    \/ \E c \in cs, n \in Names : RunJobIfExists(c, n)
    \/ \E c \in cs : runJob(c)
    \/ \E c \in cs, n \in Names : CancelJob(c, n)
    \/ \E c \in cs, n \in Names : CancelJobIfExists(c, n)
    \/ \E c \in cs : CancelJobState(c)
    \/ \E c \in cs : SendBlocked(c)
    \/ \E c \in cs, p \in Prefixes : CancelJobs(c, p)
    \/ \E c \in cs : CancelJobsNext(c)
    \/ \E c \in cs, n \in Names : JobExists(c, n)
    \/ \E c \in cs : ListJobs(c)
    \/ Return
    \/ \E j \in JobIds : SelectCtxDone(j)
    \/ \E j \in JobIds : SelectCancel(j)
    \/ \E j \in JobIds : SelectRun(j)
    \/ \E j \in JobIds : SelectTimer(j)
    \/ \E j \in JobIds : SelectBlock(j)
    \/ \E j \in JobIds : TimePasses(j)
    \/ ContextCancel
    \/ \E j \in JobIds : CtxDelete(j)
    \/ \E j \in JobIds : finaliseJob(j)
    \/ \E j \in JobIds : RunStart(j)
    \/ \E j \in JobIds : RunEnd(j)
    \/ \E j \in JobIds : ClearActive(j)
    \/ \E j \in JobIds : TimerCheck(j)
    \/ \E j \in JobIds : TimerStart(j)
    \/ \E j \in JobIds : TimerEnd(j)
    \/ \E j \in JobIds, due \in BOOLEAN, err \in {"nil", "ErrNoMoreInstances", "error"} :
          RuntimeFunc(j, due, err)

\* One job, concurrent callers.
Next == Sys(Callers, SoloJobs)

Spec == Init /\ [][Next]_vars

\* Several jobs, one caller that schedules and cancels: the jobs end by
\* their timers, by cancellation, by the context or by their runtimeFunc.
PairCaller == "c1"

NextPair ==
    \/ \E n \in Names \cup {<<>>}, past \in BOOLEAN, f \in BOOLEAN :
          MayCall(n, f, MaxJobs) /\ ScheduleJob(PairCaller, n, past, f)
    \/ \E n \in Names \cup {<<>>}, rf \in BOOLEAN, f \in BOOLEAN :
          MayCall(n, rf /\ f, MaxJobs) /\ SchedulePeriodicJob(PairCaller, n, rf, f)
    \/ \E n \in Names : CancelJob(PairCaller, n)
    \/ CancelJobState(PairCaller)
    \/ \E p \in Prefixes : CancelJobs(PairCaller, p)
    \/ CancelJobsNext(PairCaller)
    \/ \E n \in Names : JobExists(PairCaller, n)
    \/ Return
    \/ \E j \in JobIds : SelectCtxDone(j)
    \/ \E j \in JobIds : SelectCancel(j)
    \/ \E j \in JobIds : SelectTimer(j)
    \/ \E j \in JobIds : SelectBlock(j)
    \/ \E j \in JobIds : TimePasses(j)
    \/ ContextCancel
    \/ \E j \in JobIds : CtxDelete(j)
    \/ \E j \in JobIds : finaliseJob(j)
    \/ \E j \in JobIds : TimerCheck(j)
    \/ \E j \in JobIds : TimerStart(j)
    \/ \E j \in JobIds : TimerEnd(j)
    \/ \E j \in JobIds, due \in BOOLEAN, err \in {"nil", "ErrNoMoreInstances", "error"} :
          RuntimeFunc(j, due, err)

SpecPair == Init /\ [][NextPair]_vars

\* A step of the runner goroutine of record j (time passing is not one).
RunnerStep(j) ==
    \/ SelectCtxDone(j) \/ SelectCancel(j) \/ SelectRun(j) \/ SelectTimer(j)
    \/ SelectBlock(j) \/ CtxDelete(j) \/ finaliseJob(j)
    \/ RunStart(j) \/ RunEnd(j) \/ ClearActive(j)
    \/ TimerCheck(j) \/ TimerStart(j) \/ TimerEnd(j)
    \/ \E due \in BOOLEAN, err \in {"nil", "ErrNoMoreInstances", "error"} :
          RuntimeFunc(j, due, err)

\* One job and one caller, under the Go scheduler, which runs every
\* goroutine that can run: a call that has its result returns, and a runner
\* that can take a step takes it.  The runners' fairness is strong because
\* their steps are written as waiting while a result is being returned,
\* which the goroutines do not do.
NextFair == Sys({"c1"}, SoloJobs)

FairSpec ==
    /\ Init /\ [][NextFair]_vars
    /\ WF_vars(Return)
    /\ \A j \in JobIds : SF_vars(RunnerStep(j))

----------------------------------------------------------------------------
\* Properties

\* The one-off job records made so far.
OneOff(j) == runner[j].pc # "none" /\ ~job[j].periodic

\* The periodic job records made so far.
Periodic(j) == runner[j].pc # "none" /\ job[j].periodic

\* C1: a one-off job whose RunJob returned nil before jobFunc had started
\* executes jobFunc exactly once, by the run signal: when its runner has ended
\* (the parent context not cancelled) jobFunc has run once, started by the
\* run case and not by the timer case.
C1_RunNowExactlyOnce ==
    \A j \in JobIds :
        (OneOff(j) /\ hist[j].runOk /\ runner[j].pc = "done" /\ ~ctxDone)
            => (hist[j].execs = 1 /\ hist[j].cause = "signal")

\* C2: once CancelJob has returned nil for a one-off job whose time had not
\* been reached and whose jobFunc had not started, no step starts jobFunc.
C2_CancelBeforeTimeNeverRuns ==
    [][\A j \in JobIds :
          hist[j].cancelRet = "early" => hist'[j].execs = hist[j].execs]_vars

\* C3: jobFunc of a one-off job is called at most once, whatever the timer,
\* RunJob, CancelJob and the parent context do.
C3_OneOffAtMostOnce == \A j \in JobIds : OneOff(j) => hist[j].execs <= 1

\* The timer case has called jobFunc while a run signal sits in runCh.
C3_TimerRanWithSignalPending ==
    \E j \in JobIds :
        /\ OneOff(j)
        /\ hist[j].execs = 1
        /\ hist[j].cause = "timer"
        /\ job[j].runCh.buf = 1

\* C4: once CancelJob (or CancelJobIfExists, or CancelJobs) has returned nil
\* for a periodic job, no step starts jobFunc.
C4_PeriodicCancelStopsRuns ==
    [][\A j \in JobIds :
          (Periodic(j) /\ hist[j].cancelRet # "none")
              => hist'[j].execs = hist[j].execs]_vars

\* C5: a one-off job whose parent context was cancelled while its runner had
\* not left its select (jobFunc not started) never starts jobFunc.
C5_ContextCancelNeverRuns ==
    [][\A j \in JobIds :
          (OneOff(j) /\ hist[j].ctxEarly) => hist'[j].execs = hist[j].execs]_vars

\* The one-off job j has started jobFunc, no job has been scheduled under
\* its name since, and caller c calls CancelJob with that name.
CancelAfterStart(c, j) ==
    /\ OneOff(j)
    /\ hist[j].execs >= 1
    /\ \A k \in JobIds : k > j => job[k].name # job[j].name
    /\ CancelJob(c, job[j].name)

\* C6, as stated: CancelJob called with the name of a one-off job whose
\* jobFunc has already started returns no error.
C6_CancelAfterStartSucceeds ==
    [][\A c \in Callers, j \in JobIds :
          CancelAfterStart(c, j) => ret'.err # "ErrNoSuchJob"]_vars

\* C6, amended: CancelJob called with the name of a one-off job whose jobFunc
\* has already started (the name not scheduled again) returns ErrNoSuchJob,
\* and changes neither the registry nor the record nor its runner.
C6_CancelAfterStartNoSuchJob ==
    [][\A c \in Callers, j \in JobIds :
          CancelAfterStart(c, j)
              => /\ ret'.err = "ErrNoSuchJob"
                 /\ UNCHANGED <<jobs, job, runner, hist, call>>]_vars

\* CancelJob has returned ErrNoSuchJob for the name of a one-off job whose
\* jobFunc is running.
C6_CancelledWhileRunning ==
    \E j \in JobIds :
        /\ OneOff(j)
        /\ runner[j].pc \in {"timerExec", "runExec"}
        /\ ret = Ret("CancelJob", job[j].name, None, "ErrNoSuchJob")

\* No RunJob and no CancelJob has looked record j up, and the parent context
\* is not cancelled.
Undisturbed(j) == ~hist[j].touched /\ ~ctxDone

\* C7: an undisturbed periodic job whose runtimeFunc has returned
\* ErrNoMoreInstances (or another error) on its Nth call has executed jobFunc
\* exactly N-1 times, its name is out of the registry, its runner never goes
\* back to the top of the loop to call runtimeFunc again, and once the runner
\* has ended the record is finalised.
C7_SentinelEndsAfterNMinusOne ==
    \A j \in JobIds :
        (Periodic(j) /\ Undisturbed(j) /\ hist[j].cause = "ended")
            => /\ hist[j].execs = hist[j].rtCalls - 1
               /\ jobs[job[j].name] # j
               /\ runner[j].pc \in {"endFin", "done"}
               /\ runner[j].pc = "done" => job[j].finalised

\* runtimeFunc has just returned the sentinel on its MaxIter-th call, after
\* MaxIter - 1 executions of jobFunc.
C7_SentinelOnLastCall ==
    \E j \in JobIds :
        /\ Periodic(j)
        /\ Undisturbed(j)
        /\ ret = Ret("runtimeFunc", job[j].name, j, "ErrNoMoreInstances")
        /\ hist[j].rtCalls = MaxIter
        /\ hist[j].execs = MaxIter - 1

\* Caller c calls ScheduleJob or SchedulePeriodicJob with name n and
\* functions that are not nil.
ScheduleCall(c, n) ==
    \/ \E past \in BOOLEAN : ScheduleJob(c, n, past, TRUE)
    \/ SchedulePeriodicJob(c, n, TRUE, TRUE)

\* C8: ScheduleJob or SchedulePeriodicJob with a name that is in the registry
\* returns ErrJobAlreadyExists and changes nothing: not the registry, not a
\* job record, not a runner (none is started), so the job registered under
\* the name goes on exactly as without the call.
C8_DuplicateNameRejected ==
    [][\A c \in Callers, n \in Names :
          (jobs[n] # None /\ ScheduleCall(c, n))
              => /\ ret'.err = "ErrJobAlreadyExists"
                 /\ UNCHANGED <<jobs, job, runner, hist, call, ctxDone, panicked>>]_vars

\* ScheduleJob has returned ErrJobAlreadyExists for the name of a periodic
\* job that has executed and is still registered, a second job being
\* registered under another name.
C8_DuplicateOfLiveJob ==
    \E n \in Names :
        /\ ret = Ret("ScheduleJob", n, None, "ErrJobAlreadyExists")
        /\ jobs[n] # None
        /\ job[jobs[n]].periodic
        /\ hist[jobs[n]].execs >= 1
        /\ \E m \in Names \ {n} : jobs[m] # None

\* C9: a one-off job scheduled with a time already reached, which no RunJob
\* and no CancelJob looks up and whose context is not cancelled, comes to
\* execute jobFunc by the timer case without any further event; it executes
\* it once only, and from the start of the execution its name is not
\* registered to it.
C9_PastJobRunsOnce ==
    /\ \A j \in JobIds :
          (ret = Ret("ScheduleJob", job[j].name, j, "nil") /\ runner[j].due)
              ~> \/ hist[j].touched
                 \/ ctxDone
                 \/ hist[j].execs = 1 /\ hist[j].cause = "timer"
    /\ [](\A j \in JobIds :
             (OneOff(j) /\ Undisturbed(j))
                 => /\ hist[j].execs <= 1
                    /\ hist[j].execs = 1 => jobs[job[j].name] # j)

\* The timer case is executing jobFunc of a one-off job that nothing has
\* disturbed; its name is out of the registry.
C9_TimerRunsUndisturbed ==
    \E j \in JobIds :
        /\ OneOff(j)
        /\ Undisturbed(j)
        /\ runner[j].pc = "timerExec"
        /\ hist[j].execs = 1
        /\ jobs[job[j].name] = None

\* C10: CancelJobs completes without blocking: while a call of CancelJobs
\* is in progress (and no goroutine has panicked) some goroutine can take a
\* step, so that the call is not stuck for ever.
C10_CancelJobsNeverStuck ==
    \A c \in Callers : (call[c].loop /\ ~panicked) => ENABLED Next

\* Caller c calls one of the four calls that look name n up.
LookupCall(c, n) ==
    \/ RunJob(c, n) \/ RunJobIfExists(c, n)
    \/ CancelJob(c, n) \/ CancelJobIfExists(c, n)

\* C11: on a name that is not in the registry RunJob and CancelJob return
\* ErrNoSuchJob, RunJobIfExists and CancelJobIfExists return normally, and
\* the call changes neither the registry nor any record (flags, channels)
\* nor any runner, so that repeating it is a no-op again.
C11_AbsentNameNoOp ==
    [][\A c \in Callers, n \in Names :
          (jobs[n] = None /\ LookupCall(c, n))
              => /\ ret'.err = IF ret'.fn \in {"RunJob", "CancelJob"}
                                THEN "ErrNoSuchJob" ELSE "none"
                 /\ UNCHANGED <<jobs, job, runner, hist, call, ctxDone, panicked>>]_vars

\* CancelJobIfExists has returned normally for the name of a job that is
\* finalised and out of the registry.
C11_IfExistsOnFinalised ==
    \E j \in JobIds :
        /\ runner[j].pc # "none"
        /\ job[j].finalised
        /\ jobs[job[j].name] = None
        /\ ret = Ret("CancelJobIfExists", job[j].name, None, "none")

\* The runner of record j will not receive from its channels any more: it
\* is calling finaliseJob, which takes the state lock first, or has passed
\* it.
PastSelect(j) ==
    runner[j].pc \in {"ctxFin", "cancel", "runFin", "timerFin", "endFin", "runClr", "done"}

\* C12: no sender blocks for ever on a signal channel: a runJob or CancelJob
\* that waits with the state lock held for room in the one-slot channel is
\* never left with a runner that will not receive (and that waits for the
\* lock the sender holds).
C12_NoSenderStuck ==
    \A c \in Callers : call[c].pc = "send" => ~PastSelect(call[c].job)

\* C13: no signal channel is closed twice and no send is made on a closed
\* channel: no goroutine panics, and each channel is closed at most once.
C13_NoDoubleCloseNoSendAfterClose ==
    /\ ~panicked
    /\ \A j \in JobIds : job[j].cancelCh.closed <= 1 /\ job[j].runCh.closed <= 1

\* The runner has closed the channels of a record that a RunJob and a
\* CancelJob have both looked up and are about to act on.
C13_CallsMeetClosedChannels ==
    \E j \in JobIds :
        /\ job[j].runCh.closed = 1
        /\ job[j].cancelCh.closed = 1
        /\ \E c, d \in Callers :
              /\ call[c].pc = "runJob" /\ call[c].job = j
              /\ call[d].pc = "cancel" /\ call[d].job = j

\* Record j is in its terminal state: finalised, both channels closed.
Finalised(j) ==
    job[j].finalised /\ job[j].cancelCh.closed >= 1 /\ job[j].runCh.closed >= 1

\* C14: every one-off job record comes to its terminal state and its runner
\* exits, whichever case the runner's select takes: a one-off runner that
\* has exited has left its record finalised with both channels closed.
C14_ExitedRunnerFinalised ==
    \A j \in JobIds : (OneOff(j) /\ runner[j].pc = "done") => Finalised(j)

\* The runner of record j has not left its select (nor, periodic, its
\* loop), and no RunJob or CancelJob has looked the record up.
Pending(j) == runner[j].pc \in {"loop", "select", "wait"} /\ ~hist[j].touched

\* C15: a runner's registry deletion removes its own record's entry only,
\* also when the name has been re-used: every job whose runner has not
\* started executing or exited and which has not been run or cancelled is
\* in the registry under its name.
C15_PendingJobRegistered ==
    \A j \in JobIds : Pending(j) => jobs[job[j].name] = j

\* C16: the active flag of a record is true only while its jobFunc is
\* executing; in particular it is false for ever once the runner has exited.
C16_ActiveFalseAfterExit ==
    \A j \in JobIds : runner[j].pc = "done" => ~job[j].active

\* Both channels of record j have been closed exactly once.
ClosedOnce(j) == job[j].cancelCh.closed = 1 /\ job[j].runCh.closed = 1

\* C17, as stated: whenever the finalised flag of a record is true, both of
\* its channels have been closed exactly once.
C17_FinalisedMeansClosed ==
    \A j \in JobIds : job[j].finalised => ClosedOnce(j)

\* C17, amended: whenever the finalised flag of a record is true, either
\* both channels have been closed exactly once, or CancelJob has set the flag
\* and returned, both channels are open and the runner's finaliseJob is
\* still to come; no channel is closed twice and no send is made on a closed
\* channel (it would panic).
C17_FinalisedClosedOrCancelled ==
    /\ ~panicked
    /\ \A j \in JobIds :
          job[j].finalised
              => \/ ClosedOnce(j)
                 \/ /\ hist[j].cancelRet # "none"
                    /\ job[j].cancelCh.closed = 0
                    /\ job[j].runCh.closed = 0
                    /\ runner[j].pc \notin {"done", "runClr"}

\* CancelJob has set finalised and its signal waits in cancelCh; the
\* channels are open.
C17_CancelledNotYetClosed ==
    \E j \in JobIds :
        /\ job[j].finalised
        /\ job[j].cancelCh.buf = 1
        /\ job[j].cancelCh.closed = 0
        /\ job[j].runCh.closed = 0

\* C18: the runner of a one-off job ends by exactly one of four causes: the
\* timer fired and jobFunc was executed, the run signal was received and
\* jobFunc was executed, the cancel signal was received, or the parent
\* context ended; it never exits having neither executed jobFunc nor
\* recorded a cancellation.
C18_OneOffTerminalCause ==
    \A j \in JobIds :
        (OneOff(j) /\ runner[j].pc = "done")
            => /\ hist[j].cause \in {"timer", "signal", "cancel", "ctx"}
               /\ hist[j].cause \in {"timer", "signal"} <=> hist[j].execs = 1

\* No CancelJob has found record j.
NotCancelled(j) ==
    /\ hist[j].cancelRet = "none"
    /\ \A c \in Callers :
          call[c].job = j => call[c].pc \notin {"cancel", "send"} \/ call[c].ch = "runCh"

\* The runner of record j is on a path that ends it: context done, cancel
\* signal, or an error of runtimeFunc.
Terminating(j) == runner[j].pc \in {"ctx", "ctxFin", "cancel", "endFin", "done"}

\* C19: a periodic job that has not been cancelled and whose runner is not
\* on a termination path is in the registry and not finalised, in every
\* iteration, while jobFunc executes and after a RunJob.
C19_PeriodicStaysRegistered ==
    \A j \in JobIds :
        (Periodic(j) /\ NotCancelled(j) /\ ~Terminating(j))
            => jobs[job[j].name] = j /\ ~job[j].finalised

\* The runner of record j is executing jobFunc.
Executing(j) == runner[j].pc \in {"runExec", "timerExec"}

====
